---- MODULE Spec2Model ----
(***************************************************************************)
(* Transport synchronisation engine of HereHear.                           *)
(*                                                                         *)
(* Modelled sources                                                        *)
(*   src/herehear/src/components/TimingSync.ts  (timestamp/offset engine)  *)
(*   src/unnamed/part_000                       (a second TimingSync that  *)
(*                                               writes positions directly)*)
(*                                                                         *)
(* Units.  Wall-clock instants (Date.now()) and positions are integers in  *)
(* milliseconds, so the source's "/ 1000" and "* 1000" are changes of unit *)
(* and "0.05" seconds is 50.  Tempo is an integer in tenths of a BPM, so   *)
(* the source's 0.1 BPM epsilon is 1 and 120 BPM is 1200.                  *)
(*                                                                         *)
(* A nullable number (number | null) is <<>> for null and <<x>> for x.     *)
(*                                                                         *)
(* The local clock (Tone.getTransport()) is a third-party object.  It is   *)
(* modelled by the part of its interface the engine uses: a run state, a   *)
(* position in seconds that advances while started, a tempo, and the one   *)
(* start event that start(time) may have placed in the future.  pause()    *)
(* records a pause at the current time and leaves events scheduled for     *)
(* later times in place; stop() is the call that cancels them.             *)
(***************************************************************************)
EXTENDS Integers, Sequences, FiniteSets, TLC

VARIABLES
    now,    \* Date.now() of the (equal) wall clocks, in ms
    A,      \* client process A: its TimingSync instance and its Transport
    B       \* client process B (moves only in the two-client specification)

vars == <<now, A, B>>

(***************************************************************************)
(* Bounds of the model                                                     *)
(***************************************************************************)
Epoch == 1000        \* Date.now() at the start of a run
TickMs == 40         \* wall-clock time advances in steps of TickMs
MaxTicks == 5        \* a run lasts MaxTicks steps of time
DriftMs == 60        \* one step of audio-clock drift against the wall clock
MaxDrift == 1        \* the audio clock is at most MaxDrift steps off per run
MaxCalls == 4        \* calls of the public interface per client and run
ConvTicks == 6       \* two clients: a run lasts ConvTicks steps of time
ConvCalls == 2       \* two clients: calls of client A between its
                     \* initialize and the delivery
InstCalls == 3       \* two objects: calls through each reference
LastPrior == 1       \* most recent wins: calls of client A between its
                     \* initialize and the last snapshot
LastCalls == 1       \* most recent wins: commands after the last snapshot
OtherBpm == 1400     \* a second tempo (140 BPM)
RemoteLead == 100    \* a remote reference instant this long before Epoch
RemotePaused == 75   \* a non-zero paused position of a remote snapshot
Fraction == 5        \* a fractional part of a tempo, in tenths of a BPM
KinTickMs == 100     \* kinematic engine: time advances in steps of KinTickMs
KinTicks == 3        \* kinematic engine: a run lasts KinTicks steps of time
KinCalls == 3        \* kinematic engine: calls of the public interface
KinPeers == 1        \* kinematic engine: updates by other participants
Accel == 1           \* a non-zero acceleration of a timing vector
EquivCalls == 4      \* two engines: commands given to both
PlayerDepth == 2     \* sound player: syncTransportState calls in execution
MaxStops == 1        \* stopAll() calls per run

(***************************************************************************)
(* Program constants                                                       *)
(***************************************************************************)
DefaultBpm == 1200       \* bpm: 120
BpmEpsilon == 1          \* Math.abs(prevBpm - state.bpm) > 0.1
DriftThreshold == 50     \* drift > 0.05
Lookahead == 50          \* const lookahead = 0.05
BaseInterval == 250      \* const baseInterval = 250
JitterRange == 50        \* const jitterRange = 50

Null == <<>>
Some(x) == <<x>>
Val(x) == x[1]

\* JavaScript truthiness of a number | null: null and 0 are falsy.
Truthy(x) == x # Null /\ Val(x) # 0

Abs(x) == IF x < 0 THEN -x ELSE x

\* Math.round on a tempo held in tenths: floor(x + 0.5), result in tenths.
MathRound(b) == ((b + 5) \div 10) * 10

Bpms == {DefaultBpm, OtherBpm}

MaxNow == Epoch + MaxTicks * TickMs

(***************************************************************************)
(* TransportState / TransportSyncState                                     *)
(***************************************************************************)
InitialState ==
    [startTime |-> Null, bpm |-> DefaultBpm, isPlaying |-> FALSE, pausedPosition |-> 0]

\* Snapshots a peer can publish: they satisfy isPlaying <=> startTime # null,
\* and a reference instant is a real epoch time (never 0).
RemoteStartTimes == {Epoch - RemoteLead, Epoch + TickMs}

RemoteStates ==
    [startTime : {Some(t) : t \in RemoteStartTimes}, bpm : Bpms,
     isPlaying : {TRUE}, pausedPosition : {0}]
    \cup
    [startTime : {Null}, bpm : {OtherBpm},
     isPlaying : {FALSE}, pausedPosition : {RemotePaused}]

(***************************************************************************)
(* The local clock: Tone.getTransport()                                    *)
(***************************************************************************)
InitialTransport ==
    [state |-> "stopped", seconds |-> 0, bpm |-> DefaultBpm, sched |-> Null]

\* transport.state as it will be at time `time` >= now: the last event at or
\* before `time` decides; the only future event is a scheduled start.
StateAt(T, time) ==
    IF T.sched # Null /\ Val(T.sched) <= time THEN "started" ELSE T.state

\* transport.start(): started from now on, unless it already is.
ToneStart(T) ==
    IF T.state = "started" THEN T ELSE [T EXCEPT !.state = "started"]

\* transport.start(time): a start event at `time`, unless the clock is
\* already started at that time.
ToneStartAt(T, time) ==
    IF StateAt(T, time) = "started" THEN T ELSE [T EXCEPT !.sched = Some(time)]

\* transport.pause(): paused from now on if started; later events stay.
TonePause(T) ==
    IF T.state = "started" THEN [T EXCEPT !.state = "paused"] ELSE T

\* transport.seconds = s
ToneSetSeconds(T, s) == [T EXCEPT !.seconds = s]

\* transport.bpm.value = b: the rate in beats; the position in seconds stays.
ToneSetBpm(T, b) == [T EXCEPT !.bpm = b]

\* The clock between wall-clock instants t and t2 > t, running at wall rate.
ToneAdvance(T, t, t2) ==
    IF T.sched # Null /\ Val(T.sched) <= t2
    THEN IF T.state = "started"
         THEN [T EXCEPT !.seconds = @ + (t2 - t), !.sched = Null]
         ELSE [T EXCEPT !.state = "started",
                        !.seconds = @ + (t2 - Val(T.sched)),
                        !.sched = Null]
    ELSE IF T.state = "started"
         THEN [T EXCEPT !.seconds = @ + (t2 - t)]
         ELSE T

(***************************************************************************)
(* Observation of one call: what it found, which Transport calls it made   *)
(* (with the run state each call found), which callback calls, its result. *)
(***************************************************************************)
Idle ==
    [name |-> "idle", arg |-> Null, preInit |-> FALSE, wasPlaying |-> FALSE,
     prePaused |-> Null, calls |-> <<>>, cb |-> <<>>, ret |-> Null]

\* What the run so far has established about a client:
\*   halted    the last of pause()/syncFromRemote(not playing) and
\*             start()/resume()/syncFromRemote(playing) on the initialized
\*             engine was one of the former
\*   pausedBy  the pause() of a playing engine that no later call followed:
\*             when it ran, the reference instant it found, what it recorded
\*   drift     how many steps the audio clock has drifted
\*   smooth    a call or loop iteration made a smooth seek, and since then
\*             only time has passed and loop iterations have run
\*   calls     how many calls of the public interface the client has made
\*   delivered the snapshot after whose delivery no further call is made
\*             (two-client specification)
\*   checked   a periodic loop iteration has run since that delivery
\*   stoppedAll  SoundPlayer.stopAll() has run, and since then no start(),
\*             resume() or playing snapshot on the initialized engine
\*   stops     how many stopAll() calls were made
NoHist ==
    [halted |-> FALSE, pausedBy |-> Null, drift |-> 0, smooth |-> FALSE, calls |-> 0,
     delivered |-> Null, checked |-> FALSE, stoppedAll |-> FALSE, stops |-> 0]

Begin(c, name) ==
    [c EXCEPT !.lastOp =
        [name |-> name, arg |-> Null, preInit |-> c.isInitialized,
         wasPlaying |-> c.currentState.isPlaying,
         prePaused |-> c.hist.pausedBy,
         calls |-> <<>>, cb |-> <<>>, ret |-> Null]]

Logged(c, call) ==
    [c EXCEPT !.lastOp.calls = Append(@, [call |-> call, st |-> c.transport.state])]

transport_start(c) ==
    [Logged(c, "start") EXCEPT !.transport = ToneStart(c.transport)]

transport_startAt(c, time) ==
    [Logged(c, "startAt") EXCEPT !.transport = ToneStartAt(c.transport, time)]

transport_pause(c) ==
    [Logged(c, "pause") EXCEPT !.transport = TonePause(c.transport)]

transport_setSeconds(c, s) ==
    [Logged(c, "seconds") EXCEPT !.transport = ToneSetSeconds(c.transport, s)]

transport_setBpm(c, b) ==
    [Logged(c, "bpm") EXCEPT !.transport = ToneSetBpm(c.transport, b)]

\* return this.currentState / return { ...this.currentState }
Return(c) == [c EXCEPT !.lastOp.ret = Some(c.currentState)]

\* The argument a call was given.
Given(c, arg) == [c EXCEPT !.lastOp.arg = Some(arg)]

\* this.onBpmChangeCallback(bpm), when one is registered: the observation
\* keeps the argument and the tempo getState() and the clock show the
\* callback while it runs.
Notify(c, bpm) ==
    IF c.onBpmChangeCallback
    THEN [c EXCEPT !.lastOp.cb =
             Append(@, [bpm |-> bpm, seen |-> c.currentState.bpm,
                        clock |-> c.transport.bpm])]
    ELSE c

(***************************************************************************)
(* class TimingSync (herehear)                                             *)
(***************************************************************************)
\* A TimingSync object after getInstance() has constructed it.  `ref` tells
\* how the object is reached: "instance" while the static field
\* TimingSync.instance holds it, "detached" once that field was cleared and
\* only references obtained earlier lead to it, "none" before construction.
NewClient ==
    [ref |-> "instance",
     currentState |-> InitialState,
     isInitialized |-> FALSE,
     updateInterval |-> Null,
     timers |-> {},
     onBpmChangeCallback |-> FALSE,
     transport |-> InitialTransport,
     lastOp |-> Idle,
     hist |-> NoHist]

\* The jittered delay of the next loop iteration: 250 +/- 50 ms.
Delays == {BaseInterval - JitterRange, BaseInterval + JitterRange - 1}

\* seekTo with the lookahead subtracted from the target instead of added.
seekTo_subtractsLookahead(c, t, targetSeconds) ==
    LET c1 == transport_pause(c)
        c2 == transport_setSeconds(c1, targetSeconds - Lookahead)
    IN  transport_startAt(c2, t + Lookahead)

\* seekTo that compensates the target by twice the lookahead.
seekTo_twiceLookahead(c, t, targetSeconds) ==
    LET c1 == transport_pause(c)
        c2 == transport_setSeconds(c1, targetSeconds + 2 * Lookahead)
    IN  transport_startAt(c2, t + Lookahead)

\* Smooth seek: pause, position = target + lookahead, scheduled restart.
seekTo(c, t, targetSeconds) ==
    LET c1 == transport_pause(c)
        c2 == transport_setSeconds(c1, targetSeconds + Lookahead)
    IN  transport_startAt(c2, t + Lookahead)

\* syncToTransport that puts the clock of a paused engine on pausedPosition.
syncToTransport_seeksWhenPaused(c, t) ==
    IF ~c.isInitialized
    THEN c
    ELSE IF ~c.currentState.isPlaying \/ ~Truthy(c.currentState.startTime)
    THEN transport_setSeconds(c, c.currentState.pausedPosition)
    ELSE LET expectedPosition == t - Val(c.currentState.startTime)
             drift == Abs(c.transport.seconds - expectedPosition)
         IN  IF drift > DriftThreshold THEN seekTo(c, t, expectedPosition) ELSE c

\* syncToTransport that also corrects a drift of exactly the threshold.
syncToTransport_correctsAtThreshold(c, t) ==
    IF ~c.isInitialized \/ ~c.currentState.isPlaying \/ ~Truthy(c.currentState.startTime)
    THEN c
    ELSE LET expectedPosition == t - Val(c.currentState.startTime)
             drift == Abs(c.transport.seconds - expectedPosition)
         IN  IF drift >= DriftThreshold THEN seekTo(c, t, expectedPosition) ELSE c

syncToTransport(c, t) ==
    IF ~c.isInitialized \/ ~c.currentState.isPlaying \/ ~Truthy(c.currentState.startTime)
    THEN c
    ELSE LET elapsed == t - Val(c.currentState.startTime)
             expectedPosition == elapsed
             currentPosition == c.transport.seconds
             drift == Abs(currentPosition - expectedPosition)
         IN  IF drift > DriftThreshold THEN seekTo(c, t, expectedPosition) ELSE c

\* window.setTimeout(sync, jitter): a pending timer, known by its deadline.
setTimeout(c, t, jitter) ==
    [c EXCEPT !.updateInterval = Some(t + jitter), !.timers = @ \cup {t + jitter}]

\* One run of the closure `sync` of startSyncLoop, rescheduling itself.
sync(c, t, jitter) == setTimeout(syncToTransport(c, t), t, jitter)

startSyncLoop(c, t, jitter) == sync(c, t, jitter)

\* initialize without the "already initialized" early return.
initialize_unguarded(c, t, bpm, jitter) ==
    LET c0 == Begin(c, "initialize")
        c1 == [c0 EXCEPT !.currentState.bpm = bpm, !.isInitialized = TRUE]
        c2 == transport_setBpm(c1, bpm)
    IN  startSyncLoop(c2, t, jitter)

initialize(c, t, bpm, jitter) ==
    LET c0 == Begin(c, "initialize")
    IN  IF c0.isInitialized
        THEN c0
        ELSE LET c1 == [c0 EXCEPT !.currentState.bpm = bpm, !.isInitialized = TRUE]
                 c2 == transport_setBpm(c1, bpm)
             IN  startSyncLoop(c2, t, jitter)

\* syncFromRemote that notifies from a tempo difference of 0.1 BPM on.
syncFromRemote_notifiesAtEpsilon(c, t, state) ==
    LET c0 == Given(Begin(c, "syncFromRemote"), state)
    IN  IF ~c0.isInitialized
        THEN c0
        ELSE LET prevBpm == c0.currentState.bpm
                 wasPlaying == c0.currentState.isPlaying
                 c1 == [c0 EXCEPT !.currentState = state]
                 c2 == IF Abs(prevBpm - state.bpm) >= BpmEpsilon
                       THEN Notify(c1, MathRound(state.bpm))
                       ELSE c1
                 c3 == transport_setBpm(c2, state.bpm)
             IN  IF state.isPlaying /\ Truthy(state.startTime)
                 THEN LET positionInSeconds == t - Val(state.startTime)
                      IN  IF ~wasPlaying \/ c3.transport.state # "started"
                          THEN transport_start(transport_setSeconds(c3, positionInSeconds))
                          ELSE LET drift == Abs(c3.transport.seconds - positionInSeconds)
                               IN  IF drift > DriftThreshold
                                   THEN seekTo(c3, t, positionInSeconds)
                                   ELSE c3
                 ELSE IF c3.transport.state = "started"
                      THEN transport_pause(c3)
                      ELSE c3

\* syncFromRemote that keeps the local pausedPosition.
syncFromRemote_keepsPausedPosition(c, t, state) ==
    LET c0 == Given(Begin(c, "syncFromRemote"), state)
    IN  IF ~c0.isInitialized
        THEN c0
        ELSE LET prevBpm == c0.currentState.bpm
                 wasPlaying == c0.currentState.isPlaying
                 c1 == [c0 EXCEPT !.currentState =
                           [state EXCEPT !.pausedPosition =
                                             c0.currentState.pausedPosition]]
                 c2 == IF Abs(prevBpm - state.bpm) > BpmEpsilon
                       THEN Notify(c1, MathRound(state.bpm))
                       ELSE c1
                 c3 == transport_setBpm(c2, state.bpm)
             IN  IF state.isPlaying /\ Truthy(state.startTime)
                 THEN LET positionInSeconds == t - Val(state.startTime)
                      IN  IF ~wasPlaying \/ c3.transport.state # "started"
                          THEN transport_start(transport_setSeconds(c3, positionInSeconds))
                          ELSE LET drift == Abs(c3.transport.seconds - positionInSeconds)
                               IN  IF drift > DriftThreshold
                                   THEN seekTo(c3, t, positionInSeconds)
                                   ELSE c3
                 ELSE IF c3.transport.state = "started"
                      THEN transport_pause(c3)
                      ELSE c3

\* syncFromRemote whose transition branch starts the clock where it stands.
syncFromRemote_startsWithoutSeek(c, t, state) ==
    LET c0 == Given(Begin(c, "syncFromRemote"), state)
    IN  IF ~c0.isInitialized
        THEN c0
        ELSE LET prevBpm == c0.currentState.bpm
                 wasPlaying == c0.currentState.isPlaying
                 c1 == [c0 EXCEPT !.currentState = state]
                 c2 == IF Abs(prevBpm - state.bpm) > BpmEpsilon
                       THEN Notify(c1, MathRound(state.bpm))
                       ELSE c1
                 c3 == transport_setBpm(c2, state.bpm)
             IN  IF state.isPlaying /\ Truthy(state.startTime)
                 THEN LET positionInSeconds == t - Val(state.startTime)
                      IN  IF ~wasPlaying \/ c3.transport.state # "started"
                          THEN transport_start(c3)
                          ELSE LET drift == Abs(c3.transport.seconds - positionInSeconds)
                               IN  IF drift > DriftThreshold
                                   THEN seekTo(c3, t, positionInSeconds)
                                   ELSE c3
                 ELSE IF c3.transport.state = "started"
                      THEN transport_pause(c3)
                      ELSE c3

syncFromRemote(c, t, state) ==
    LET c0 == Given(Begin(c, "syncFromRemote"), state)
    IN  IF ~c0.isInitialized
        THEN c0
        ELSE LET prevBpm == c0.currentState.bpm
                 wasPlaying == c0.currentState.isPlaying
                 c1 == [c0 EXCEPT !.currentState = state]
                 c2 == IF Abs(prevBpm - state.bpm) > BpmEpsilon
                       THEN Notify(c1, MathRound(state.bpm))
                       ELSE c1
                 c3 == transport_setBpm(c2, state.bpm)
             IN  IF state.isPlaying /\ Truthy(state.startTime)
                 THEN LET elapsed == t - Val(state.startTime)
                          positionInSeconds == elapsed
                      IN  IF ~wasPlaying \/ c3.transport.state # "started"
                          THEN transport_start(transport_setSeconds(c3, positionInSeconds))
                          ELSE LET drift == Abs(c3.transport.seconds - positionInSeconds)
                               IN  IF drift > DriftThreshold
                                   THEN seekTo(c3, t, positionInSeconds)
                                   ELSE c3
                 ELSE IF c3.transport.state = "started"
                      THEN transport_pause(c3)
                      ELSE c3

\* setBPM that also rewinds: position and pausedPosition back to 0.
setBPM_rewinds(c, bpm) ==
    LET c0 == Begin(c, "setBPM")
    IN  IF ~c0.isInitialized
        THEN Return(c0)
        ELSE LET c1 == [c0 EXCEPT !.currentState.bpm = bpm,
                                  !.currentState.pausedPosition = 0]
             IN  Return(transport_setBpm(transport_setSeconds(c1, 0), bpm))

setBPM(c, bpm) ==
    LET c0 == Begin(c, "setBPM")
    IN  IF ~c0.isInitialized
        THEN Return(c0)
        ELSE LET c1 == [c0 EXCEPT !.currentState.bpm = bpm]
             IN  Return(transport_setBpm(c1, bpm))

\* start() that keeps the pausedPosition it found.
start_keepsPausedPosition(c, t) ==
    LET c0 == Begin(c, "start")
    IN  IF ~c0.isInitialized
        THEN Return(c0)
        ELSE LET c1 == transport_setSeconds(c0, 0)
                 c2 == [c1 EXCEPT !.currentState.startTime = Some(t),
                                  !.currentState.isPlaying = TRUE]
             IN  Return(transport_start(c2))

\* start() without the "not initialized" early return.
start_unguarded(c, t) ==
    LET c0 == Begin(c, "start")
        c1 == transport_setSeconds(c0, 0)
        c2 == [c1 EXCEPT !.currentState.startTime = Some(t),
                         !.currentState.isPlaying = TRUE,
                         !.currentState.pausedPosition = 0]
    IN  Return(transport_start(c2))

start(c, t) ==
    LET c0 == Begin(c, "start")
    IN  IF ~c0.isInitialized
        THEN Return(c0)
        ELSE LET c1 == transport_setSeconds(c0, 0)
                 c2 == [c1 EXCEPT !.currentState.startTime = Some(t),
                                  !.currentState.isPlaying = TRUE,
                                  !.currentState.pausedPosition = 0]
             IN  Return(transport_start(c2))

\* resume() that takes the reference instant to be now, not back-dated.
resume_notBackdated(c, t) ==
    LET c0 == Begin(c, "resume")
    IN  IF ~c0.isInitialized
        THEN Return(c0)
        ELSE IF c0.currentState.isPlaying
        THEN Return(c0)
        ELSE LET pos == c0.currentState.pausedPosition
                 c1 == transport_setSeconds(c0, pos)
                 c2 == [c1 EXCEPT !.currentState.startTime = Some(t),
                                  !.currentState.isPlaying = TRUE]
             IN  Return(transport_start(c2))

\* resume() without the "Already playing" early return.
resume_unguarded(c, t) ==
    LET c0 == Begin(c, "resume")
    IN  IF ~c0.isInitialized
        THEN Return(c0)
        ELSE LET pos == c0.currentState.pausedPosition
                 c1 == transport_setSeconds(c0, pos)
                 c2 == [c1 EXCEPT !.currentState.startTime = Some(t - pos),
                                  !.currentState.isPlaying = TRUE]
             IN  Return(transport_start(c2))

resume(c, t) ==
    LET c0 == Begin(c, "resume")
    IN  IF ~c0.isInitialized
        THEN Return(c0)
        ELSE IF c0.currentState.isPlaying
        THEN Return(c0)
        ELSE LET pos == c0.currentState.pausedPosition
                 c1 == transport_setSeconds(c0, pos)
                 c2 == [c1 EXCEPT !.currentState.startTime = Some(t - pos),
                                  !.currentState.isPlaying = TRUE]
             IN  Return(transport_start(c2))

\* pause() that leaves startTime set.
pause_keepsStartTime(c, t) ==
    LET c0 == Begin(c, "pause")
    IN  IF ~c0.isInitialized
        THEN Return(c0)
        ELSE LET c1 == IF Truthy(c0.currentState.startTime)
                       THEN [c0 EXCEPT !.currentState.pausedPosition =
                                           t - Val(c0.currentState.startTime)]
                       ELSE c0
                 c2 == [c1 EXCEPT !.currentState.isPlaying = FALSE]
             IN  Return(transport_pause(c2))

\* pause() that does not record the elapsed position.
pause_dropsPosition(c, t) ==
    LET c0 == Begin(c, "pause")
    IN  IF ~c0.isInitialized
        THEN Return(c0)
        ELSE LET c2 == [c0 EXCEPT !.currentState.isPlaying = FALSE,
                                  !.currentState.startTime = Null]
             IN  Return(transport_pause(c2))

pause(c, t) ==
    LET c0 == Begin(c, "pause")
    IN  IF ~c0.isInitialized
        THEN Return(c0)
        ELSE LET c1 == IF Truthy(c0.currentState.startTime)
                       THEN [c0 EXCEPT !.currentState.pausedPosition =
                                           t - Val(c0.currentState.startTime)]
                       ELSE c0
                 c2 == [c1 EXCEPT !.currentState.isPlaying = FALSE,
                                  !.currentState.startTime = Null]
             IN  Return(transport_pause(c2))

\* reset() that sets the reference instant whether playing or not.
reset_alwaysReanchors(c, t) ==
    LET c0 == Begin(c, "reset")
    IN  IF ~c0.isInitialized
        THEN Return(c0)
        ELSE LET c1 == transport_setSeconds(c0, 0)
                 c2 == [c1 EXCEPT !.currentState.pausedPosition = 0,
                                  !.currentState.startTime = Some(t)]
             IN  Return(c2)

reset(c, t) ==
    LET c0 == Begin(c, "reset")
    IN  IF ~c0.isInitialized
        THEN Return(c0)
        ELSE LET c1 == transport_setSeconds(c0, 0)
                 c2 == [c1 EXCEPT !.currentState.pausedPosition = 0]
                 c3 == IF c2.currentState.isPlaying
                       THEN [c2 EXCEPT !.currentState.startTime = Some(t)]
                       ELSE c2
             IN  Return(c3)

getState(c) == c.currentState

onBpmChange(c) ==
    [Begin(c, "onBpmChange") EXCEPT !.onBpmChangeCallback = TRUE]

\* clearTimeout(this.updateInterval); this.updateInterval = null
clearTimeout(c) ==
    IF c.updateInterval # Null
    THEN [c EXCEPT !.timers = @ \ {Val(c.updateInterval)}, !.updateInterval = Null]
    ELSE c

destroy(c) ==
    LET c0 == Begin(c, "destroy")
    IN  [clearTimeout(c0) EXCEPT !.isInitialized = FALSE,
                                 !.onBpmChangeCallback = FALSE,
                                 !.ref = "detached"]

(***************************************************************************)
(* class TimingSync of src/unnamed/part_000.  Its initialize, setBPM,      *)
(* start, resume, pause, reset and onBpmChange read as the ones above; its *)
(* reconciler and drift corrector write the position directly.             *)
(***************************************************************************)
syncFromRemote_p0(c, t, state) ==
    LET c0 == Given(Begin(c, "syncFromRemote"), state)
    IN  IF ~c0.isInitialized
        THEN c0
        ELSE LET prevBpm == c0.currentState.bpm
                 c1 == [c0 EXCEPT !.currentState = state]
                 c2 == IF Abs(prevBpm - state.bpm) > BpmEpsilon
                       THEN Notify(c1, MathRound(state.bpm))
                       ELSE c1
                 c3 == transport_setBpm(c2, state.bpm)
             IN  IF state.isPlaying /\ Truthy(state.startTime)
                 THEN LET elapsed == t - Val(state.startTime)
                          positionInSeconds == elapsed
                          c4 == transport_setSeconds(c3, positionInSeconds)
                      IN  IF c4.transport.state # "started"
                          THEN transport_start(c4)
                          ELSE c4
                 ELSE IF c3.transport.state = "started"
                      THEN transport_pause(c3)
                      ELSE c3

syncToTransport_p0(c, t) ==
    IF ~c.isInitialized \/ ~c.currentState.isPlaying \/ ~Truthy(c.currentState.startTime)
    THEN c
    ELSE LET elapsed == t - Val(c.currentState.startTime)
             expectedPosition == elapsed
             currentPosition == c.transport.seconds
             drift == Abs(currentPosition - expectedPosition)
         IN  IF drift > DriftThreshold
             THEN transport_setSeconds(c, expectedPosition)
             ELSE c

sync_p0(c, t, jitter) == setTimeout(syncToTransport_p0(c, t), t, jitter)

initialize_p0(c, t, bpm, jitter) ==
    LET c0 == Begin(c, "initialize")
    IN  IF c0.isInitialized
        THEN c0
        ELSE LET c1 == [c0 EXCEPT !.currentState.bpm = bpm, !.isInitialized = TRUE]
                 c2 == transport_setBpm(c1, bpm)
             IN  sync_p0(c2, t, jitter)

destroy_p0(c) ==
    LET c0 == Begin(c, "destroy")
    IN  [clearTimeout(c0) EXCEPT !.isInitialized = FALSE,
                                 !.onBpmChangeCallback = FALSE]

(***************************************************************************)
(* Bookkeeping after a call of the public interface                        *)
(***************************************************************************)
Halts(c) ==
    /\ c.lastOp.preInit
    /\ \/ c.lastOp.name = "pause"
       \/ c.lastOp.name = "syncFromRemote" /\ ~c.currentState.isPlaying

Unhalts(c) ==
    /\ c.lastOp.preInit
    /\ \/ c.lastOp.name \in {"start", "resume"}
       \/ c.lastOp.name = "syncFromRemote" /\ c.currentState.isPlaying

\* The call or loop iteration that led to c made a smooth seek.
Seeks(c) ==
    \E i \in 1..Len(c.lastOp.calls) : c.lastOp.calls[i].call = "startAt"

Track(old, c, t) ==
    [c EXCEPT
        !.hist.calls = @ + 1,
        !.hist.smooth = Seeks(c),
        !.hist.halted = IF Halts(c) THEN TRUE ELSE IF Unhalts(c) THEN FALSE ELSE @,
        !.hist.stoppedAll = IF Unhalts(c) THEN FALSE ELSE @,
        !.hist.pausedBy =
            IF c.lastOp.name = "pause" /\ c.lastOp.preInit /\ c.lastOp.wasPlaying
            THEN Some([at |-> t, startTime |-> old.currentState.startTime,
                       pausedPosition |-> c.currentState.pausedPosition])
            ELSE Null]

(***************************************************************************)
(* Steps of client A                                                       *)
(***************************************************************************)
MayCall(c) == c.hist.calls < MaxCalls

\* Wall-clock time passes; the local clock runs at wall rate.
Passed(c, t, t2) ==
    [c EXCEPT !.transport = ToneAdvance(c.transport, t, t2), !.lastOp = Idle]

Tick ==
    /\ now + TickMs <= MaxNow
    /\ now' = now + TickMs
    /\ A' = Passed(A, now, now')
    /\ UNCHANGED B

\* The audio clock gains or loses DriftMs against the wall clock.
AudioDrift ==
    /\ A.transport.state = "started"
    /\ A.hist.drift < MaxDrift
    /\ \E d \in {-DriftMs, DriftMs} :
           A' = [A EXCEPT !.transport.seconds = @ + d,
                          !.hist.drift = @ + 1,
                          !.hist.smooth = FALSE,
                          !.lastOp = Idle]
    /\ UNCHANGED <<now, B>>

\* A pending timer of client c that is due: it fires, on time or late.
Fired(c, d) == [c EXCEPT !.timers = @ \ {d}]

\* A loop iteration: a smooth seek it makes is remembered.
Looped(c) == [c EXCEPT !.hist.smooth = @ \/ Seeks(c)]

LoopFire ==
    /\ \E d \in A.timers, jitter \in Delays :
           /\ now >= d
           /\ A' = Looped(sync(Begin(Fired(A, d), "sync"), now, jitter))
    /\ UNCHANGED <<now, B>>

Initialize ==
    /\ MayCall(A)
    /\ \E bpm \in Bpms, jitter \in Delays :
           A' = Track(A, initialize(A, now, bpm, jitter), now)
    /\ UNCHANGED <<now, B>>

Destroy ==
    /\ MayCall(A)
    /\ A' = Track(A, destroy(A), now)
    /\ UNCHANGED <<now, B>>

OnBpmChange ==
    /\ MayCall(A)
    /\ A' = Track(A, onBpmChange(A), now)
    /\ UNCHANGED <<now, B>>

SyncFromRemote ==
    /\ MayCall(A)
    /\ \E state \in RemoteStates : A' = Track(A, syncFromRemote(A, now, state), now)
    /\ UNCHANGED <<now, B>>

SetBPM ==
    /\ MayCall(A)
    /\ \E bpm \in Bpms : A' = Track(A, setBPM(A, bpm), now)
    /\ UNCHANGED <<now, B>>

Start ==
    /\ MayCall(A)
    /\ A' = Track(A, start(A, now), now)
    /\ UNCHANGED <<now, B>>

Resume ==
    /\ MayCall(A)
    /\ A' = Track(A, resume(A, now), now)
    /\ UNCHANGED <<now, B>>

Pause ==
    /\ MayCall(A)
    /\ A' = Track(A, pause(A, now), now)
    /\ UNCHANGED <<now, B>>

Reset ==
    /\ MayCall(A)
    /\ A' = Track(A, reset(A, now), now)
    /\ UNCHANGED <<now, B>>

Init ==
    /\ now = Epoch
    /\ A = NewClient
    /\ B = NewClient

Next ==
    \/ Tick
    \/ AudioDrift
    \/ LoopFire
    \/ Initialize
    \/ Destroy
    \/ OnBpmChange
    \/ SyncFromRemote
    \/ SetBPM
    \/ Start
    \/ Resume
    \/ Pause
    \/ Reset

Spec == Init /\ [][Next]_vars

(***************************************************************************)
(* The same client running the TimingSync of src/unnamed/part_000          *)
(***************************************************************************)
P0LoopFire ==
    /\ \E d \in A.timers, jitter \in Delays :
           /\ now >= d
           /\ A' = sync_p0(Begin(Fired(A, d), "sync"), now, jitter)
    /\ UNCHANGED <<now, B>>

P0Initialize ==
    /\ MayCall(A)
    /\ \E bpm \in Bpms, jitter \in Delays :
           A' = Track(A, initialize_p0(A, now, bpm, jitter), now)
    /\ UNCHANGED <<now, B>>

P0Destroy ==
    /\ MayCall(A)
    /\ A' = Track(A, destroy_p0(A), now)
    /\ UNCHANGED <<now, B>>

P0SyncFromRemote ==
    /\ MayCall(A)
    /\ \E state \in RemoteStates : A' = Track(A, syncFromRemote_p0(A, now, state), now)
    /\ UNCHANGED <<now, B>>

NextP0 ==
    \/ Tick
    \/ AudioDrift
    \/ P0LoopFire
    \/ P0Initialize
    \/ P0Destroy
    \/ OnBpmChange
    \/ P0SyncFromRemote
    \/ SetBPM
    \/ Start
    \/ Resume
    \/ Pause
    \/ Reset

SpecP0 == Init /\ [][NextP0]_vars

(***************************************************************************)
(* Two clients with equal wall clocks.  A has a history of calls after its *)
(* initialize, B has just been initialized; then the same playing snapshot *)
(* is delivered to both (not necessarily at the same time) and no call     *)
(* follows it: only time and the periodic loops go on.  The local clocks   *)
(* run at wall rate.                                                       *)
(***************************************************************************)
PlayingRemoteStates == {s \in RemoteStates : s.isPlaying}

\* Snapshots of the prior history: any reference instant, the default tempo.
PriorRemoteStates ==
    {s \in RemoteStates : s.bpm = DefaultBpm}
    \cup
    {[startTime |-> Null, bpm |-> DefaultBpm,
      isPlaying |-> FALSE, pausedPosition |-> RemotePaused]}

\* A call of the prior history; of the bookkeeping only the count is kept.
Counted(c) == [c EXCEPT !.hist.calls = @ + 1, !.lastOp = Idle]

ConvInitialize(c, cp) ==
    /\ c.hist.delivered = Null
    /\ ~c.isInitialized
    /\ \E jitter \in Delays : cp = Counted(initialize(c, now, DefaultBpm, jitter))

\* A call of the prior history of an initialized client.
ConvCall(c, cp) ==
    /\ c.hist.delivered = Null
    /\ c.isInitialized
    /\ c.hist.calls <= ConvCalls
    /\ \/ cp = Counted(start(c, now))
       \/ cp = Counted(pause(c, now))
       \/ cp = Counted(resume(c, now))
       \/ \E state \in PriorRemoteStates :
              cp = Counted(syncFromRemote(c, now, state))

\* The snapshot was published by a peer with the same clock: its reference
\* instant is not later than now.
ConvDeliver(c, cp, other) ==
    /\ c.isInitialized
    /\ c.hist.delivered = Null
    /\ \E s \in PlayingRemoteStates :
           /\ Val(s.startTime) <= now
           /\ other.hist.delivered # Null => s = Val(other.hist.delivered)
           /\ cp = [Counted(syncFromRemote(c, now, s))
                       EXCEPT !.hist.delivered = Some(s)]

ConvLoopFire(c, cp) ==
    /\ \E d \in c.timers, jitter \in Delays :
           /\ now >= d
           /\ cp = [sync(Fired(c, d), now, jitter)
                    EXCEPT !.hist.checked = (c.hist.delivered # Null),
                           !.lastOp = Idle]

ConvTick ==
    /\ now + TickMs <= Epoch + ConvTicks * TickMs
    /\ now' = now + TickMs
    /\ A' = Passed(A, now, now')
    /\ B' = Passed(B, now, now')

ConvInitializeA == ConvInitialize(A, A') /\ UNCHANGED <<now, B>>
ConvInitializeB == ConvInitialize(B, B') /\ UNCHANGED <<now, A>>
ConvCallA == ConvCall(A, A') /\ UNCHANGED <<now, B>>
ConvDeliverA == ConvDeliver(A, A', B) /\ UNCHANGED <<now, B>>
ConvDeliverB == ConvDeliver(B, B', A) /\ UNCHANGED <<now, A>>
ConvLoopFireA == ConvLoopFire(A, A') /\ UNCHANGED <<now, B>>
ConvLoopFireB == ConvLoopFire(B, B') /\ UNCHANGED <<now, A>>

NextConv ==
    \/ ConvTick
    \/ ConvInitializeA
    \/ ConvInitializeB
    \/ ConvCallA
    \/ ConvDeliverA
    \/ ConvDeliverB
    \/ ConvLoopFireA
    \/ ConvLoopFireB

SpecConv == Init /\ [][NextConv]_vars

(***************************************************************************)
(* Two clients, A with a history of commands and snapshots after its       *)
(* initialize, B just initialized.  Then one snapshot is applied to both,  *)
(* and from then on both are given the same commands at the same instants. *)
(***************************************************************************)
LastHistoryA ==
    /\ A.hist.delivered = Null
    /\ A.isInitialized
    /\ A.hist.calls <= LastPrior
    /\ \/ \E cp \in {start(A, now), resume(A, now), pause(A, now),
                      reset(A, now), setBPM(A, OtherBpm)} :
              A' = Counted(cp)
       \/ \E state \in PriorRemoteStates :
              A' = Counted(syncFromRemote(A, now, state))
    /\ UNCHANGED <<now, B>>

LastDeliver ==
    /\ A.isInitialized /\ B.isInitialized
    /\ A.hist.delivered = Null
    /\ \E s \in RemoteStates :
           /\ A' = [syncFromRemote(A, now, s) EXCEPT !.hist.delivered = Some(s),
                                                     !.hist.calls = 0]
           /\ B' = [syncFromRemote(B, now, s) EXCEPT !.hist.delivered = Some(s),
                                                     !.hist.calls = 0]
    /\ UNCHANGED now

\* The same command, with the same argument, on both clients.
LastCommand ==
    /\ A.hist.delivered # Null
    /\ A.hist.calls < LastCalls
    /\ \E k \in 1..6 :
           LET do(c) == CASE k = 1 -> start(c, now)
                          [] k = 2 -> resume(c, now)
                          [] k = 3 -> pause(c, now)
                          [] k = 4 -> reset(c, now)
                          [] k = 5 -> setBPM(c, DefaultBpm)
                          [] k = 6 -> setBPM(c, OtherBpm)
           IN  /\ A' = Counted(do(A))
               /\ B' = Counted(do(B))
    /\ UNCHANGED now

NextLast ==
    \/ ConvTick
    \/ ConvInitializeA
    \/ ConvInitializeB
    \/ LastHistoryA
    \/ LastDeliver
    \/ LastCommand
    \/ ConvLoopFireA
    \/ ConvLoopFireB

SpecLast == Init /\ [][NextLast]_vars

(***************************************************************************)
(* One client process and the TimingSync objects it can come to hold: A,   *)
(* constructed by the first getInstance(), and B, constructed by a         *)
(* getInstance() that finds TimingSync.instance cleared.  The process has  *)
(* one Transport, which both records show.  Callers keep the references    *)
(* they obtained and may call through any of them.                         *)
(***************************************************************************)
\* The object c after a call on the other object left the Transport as T.
Sharing(c, T) == [c EXCEPT !.transport = T]

InstMayCall(c) == c.hist.calls < InstCalls

InstTick ==
    /\ now + TickMs <= MaxNow
    /\ now' = now + TickMs
    /\ A' = Passed(A, now, now')
    /\ B' = Passed(B, now, now')

\* static getInstance(), finding TimingSync.instance null: new TimingSync().
InstGetInstance ==
    /\ A.ref # "instance"
    /\ B.ref = "none"
    /\ B' = [B EXCEPT !.ref = "instance"]
    /\ UNCHANGED <<now, A>>

InstInitializeA ==
    /\ InstMayCall(A)
    /\ \E bpm \in Bpms, jitter \in Delays :
           A' = Track(A, initialize(A, now, bpm, jitter), now)
    /\ B' = Sharing(B, A'.transport)
    /\ UNCHANGED now

InstInitializeB ==
    /\ B.ref # "none"
    /\ InstMayCall(B)
    /\ \E bpm \in Bpms, jitter \in Delays :
           B' = Track(B, initialize(B, now, bpm, jitter), now)
    /\ A' = Sharing(A, B'.transport)
    /\ UNCHANGED now

InstDestroyA ==
    /\ InstMayCall(A)
    /\ A' = Track(A, destroy(A), now)
    /\ UNCHANGED <<now, B>>

InstDestroyB ==
    /\ B.ref # "none"
    /\ InstMayCall(B)
    /\ B' = Track(B, destroy(B), now)
    /\ UNCHANGED <<now, A>>

InstStartA ==
    /\ InstMayCall(A)
    /\ A' = Track(A, start(A, now), now)
    /\ B' = Sharing(B, A'.transport)
    /\ UNCHANGED now

InstStartB ==
    /\ B.ref # "none"
    /\ InstMayCall(B)
    /\ B' = Track(B, start(B, now), now)
    /\ A' = Sharing(A, B'.transport)
    /\ UNCHANGED now

InstLoopFireA ==
    /\ \E d \in A.timers, jitter \in Delays :
           /\ now >= d
           /\ A' = Looped(sync(Begin(Fired(A, d), "sync"), now, jitter))
    /\ B' = Sharing(B, A'.transport)
    /\ UNCHANGED now

InstLoopFireB ==
    /\ \E d \in B.timers, jitter \in Delays :
           /\ now >= d
           /\ B' = Looped(sync(Begin(Fired(B, d), "sync"), now, jitter))
    /\ A' = Sharing(A, B'.transport)
    /\ UNCHANGED now

InitInst ==
    /\ now = Epoch
    /\ A = NewClient
    /\ B = [NewClient EXCEPT !.ref = "none"]

NextInst ==
    \/ InstTick
    \/ InstGetInstance
    \/ InstInitializeA
    \/ InstInitializeB
    \/ InstDestroyA
    \/ InstDestroyB
    \/ InstStartA
    \/ InstStartB
    \/ InstLoopFireA
    \/ InstLoopFireB

SpecInst == InitInst /\ [][NextInst]_vars

(***************************************************************************)
(* Client A with an audio clock that gets off the wall clock by exactly    *)
(* the tolerance of the drift check, or by a millisecond more.             *)
(***************************************************************************)
DriftSteps ==
    {-(DriftThreshold + 1), -DriftThreshold, DriftThreshold, DriftThreshold + 1}

ThresholdDrift ==
    /\ A.transport.state = "started"
    /\ A.hist.drift < MaxDrift
    /\ \E d \in DriftSteps :
           A' = [A EXCEPT !.transport.seconds = @ + d,
                          !.hist.drift = @ + 1,
                          !.hist.smooth = FALSE,
                          !.lastOp = Idle]
    /\ UNCHANGED <<now, B>>

NextDrift ==
    \/ Tick
    \/ ThresholdDrift
    \/ LoopFire
    \/ Initialize
    \/ Destroy
    \/ SyncFromRemote
    \/ Start
    \/ Pause

SpecDrift == Init /\ [][NextDrift]_vars

(***************************************************************************)
(* Client A with callers that pass any number as a tempo, and with peers   *)
(* whose tempo is at, just beyond and far beyond the 0.1 BPM epsilon from  *)
(* the local one, whole and fractional.                                    *)
(***************************************************************************)
AnyBpms == Bpms \cup {0, -DefaultBpm}

NearBpms ==
    {DefaultBpm, DefaultBpm + BpmEpsilon, DefaultBpm + BpmEpsilon + 1,
     OtherBpm + Fraction}

TempoRemoteStates ==
    [startTime : {Some(Epoch - RemoteLead)}, bpm : NearBpms,
     isPlaying : {TRUE}, pausedPosition : {0}]
    \cup
    [startTime : {Null}, bpm : NearBpms,
     isPlaying : {FALSE}, pausedPosition : {RemotePaused}]

TempoInitialize ==
    /\ MayCall(A)
    /\ \E bpm \in AnyBpms, jitter \in Delays :
           A' = Track(A, initialize(A, now, bpm, jitter), now)
    /\ UNCHANGED <<now, B>>

TempoSetBPM ==
    /\ MayCall(A)
    /\ \E bpm \in AnyBpms : A' = Track(A, setBPM(A, bpm), now)
    /\ UNCHANGED <<now, B>>

TempoSyncFromRemote ==
    /\ MayCall(A)
    /\ \E state \in TempoRemoteStates :
           A' = Track(A, syncFromRemote(A, now, state), now)
    /\ UNCHANGED <<now, B>>

NextTempo ==
    \/ Tick
    \/ LoopFire
    \/ TempoInitialize
    \/ Destroy
    \/ OnBpmChange
    \/ TempoSyncFromRemote
    \/ TempoSetBPM

SpecTempo == Init /\ [][NextTempo]_vars

(***************************************************************************)
(* class TimingSync of src/gpsound (kinematic-vector engine)               *)
(*                                                                         *)
(* Its state is shared through a timing object: a vector of position,      *)
(* velocity and acceleration sampled at a timestamp.  Velocity is held as  *)
(* the tempo it stands for (velocity * 60, in tenths of a BPM), the        *)
(* timestamp in ms, the acceleration in tenths of a BPM per ms, and the    *)
(* position in the unit that makes position / velocity a number of ms.     *)
(* The timing object and its provider are third-party objects: query()     *)
(* returns the vector moved to the present, update() replaces the named    *)
(* components at the present and keeps the others, and takes effect at     *)
(* once.  All timing objects of a process connect to the same server and   *)
(* show its one vector once their connection is open; before that they     *)
(* show the vector at rest.                                                *)
(***************************************************************************)
RestVector == [position |-> 0, velocity |-> 0, acceleration |-> 0, timestamp |-> 0]

\* The vector v moved to time t.
Moved(v, t) ==
    LET elapsed == t - v.timestamp
    IN  [position |-> v.position + v.velocity * elapsed
                        + (v.acceleration * elapsed * elapsed) \div 2,
         velocity |-> v.velocity + v.acceleration * elapsed,
         acceleration |-> v.acceleration,
         timestamp |-> t]

\* What one call of the engine did: the Transport calls and callback calls it
\* made, whether it called timingObject.update, whether destroy() ran inside
\* it, and whether it ended by an exception.
KinIdle ==
    [name |-> "idle", calls |-> <<>>, cb |-> <<>>, updated |-> FALSE,
     destroyed |-> FALSE, threw |-> FALSE, ret |-> Null]

\* What the run so far has established about an engine:
\*   dead   destroy() has returned, and neither initialize() nor
\*          onBpmChange() was called since
\*   destroyed  destroy() has been called in this run
\*   calls  how many calls of the public interface were made
\*   peers  how many updates other participants have made
KinNoHist == [dead |-> FALSE, destroyed |-> FALSE, calls |-> 0, peers |-> 0]

\* A TimingSync object after getInstance() has constructed it.  `objects` are
\* the TimingObjects the engine has constructed, each with the state of its
\* connection and the listeners attached to it; `timingObject` is the index
\* of the one the field this.timingObject holds; `vector` is the vector at
\* the server; `due` counts 'change' events not yet dispatched; `timers` are
\* the pending timers, each with the handle setTimeout returned.
NewEngine ==
    [objects |-> <<>>,
     timingObject |-> Null,
     vector |-> RestVector,
     due |-> 0,
     updateInterval |-> Null,
     timers |-> {},
     handles |-> 0,
     isInitialized |-> FALSE,
     onBpmChangeCallback |-> "null",
     transport |-> InitialTransport,
     lastOp |-> KinIdle,
     hist |-> KinNoHist]

KinBegin(g, name) == [g EXCEPT !.lastOp = [KinIdle EXCEPT !.name = name]]

\* throw new Error(...) / a TypeError: the call ends here.
Throw(g) == [g EXCEPT !.lastOp.threw = TRUE]

\* transport.stop(): stopped from now on, at position 0, later events
\* cancelled.
ToneStop(T) ==
    IF T.state = "stopped" /\ T.sched = Null
    THEN T
    ELSE [T EXCEPT !.state = "stopped", !.seconds = 0, !.sched = Null]

transport_stop(g) ==
    [Logged(g, "stop") EXCEPT !.transport = ToneStop(g.transport)]

\* 'change' listeners attached to timing objects whose connection is open.
Listening(g) ==
    Cardinality({i \in 1..Len(g.objects) :
                    g.objects[i].change /\ g.objects[i].readyState = "open"})

\* this.timingObject.query()
query(g, t) ==
    IF g.objects[Val(g.timingObject)].readyState = "open"
    THEN Moved(g.vector, t)
    ELSE Moved(RestVector, t)

\* this.timingObject.update({ velocity, position }): every open timing
\* object dispatches 'change'.
update(g, t, velocity, position) ==
    [g EXCEPT !.vector = [position |-> position, velocity |-> velocity,
                          acceleration |-> Moved(g.vector, t).acceleration,
                          timestamp |-> t],
              !.due = Listening(g),
              !.lastOp.updated = TRUE]

\* The position and velocity of a vector now, or the exception for a
\* vector with acceleration.
Unsupported(vector) == vector.acceleration # 0

translateVector(vector, t) ==
    LET elapsed == t - vector.timestamp
        currentPosition == vector.position + vector.velocity * elapsed
    IN  [position |-> currentPosition, velocity |-> vector.velocity]

clearTimeout_gp(g) ==
    IF g.updateInterval # Null
    THEN [g EXCEPT !.timers = {tm \in @ : tm.id # Val(g.updateInterval)},
                   !.updateInterval = Null]
    ELSE g

destroy_gp(g) ==
    [clearTimeout_gp(g) EXCEPT !.timingObject = Null,
                               !.isInitialized = FALSE,
                               !.onBpmChangeCallback = "null",
                               !.lastOp.destroyed = TRUE,
                               !.hist.dead = TRUE,
                               !.hist.destroyed = TRUE]

\* this.onBpmChangeCallback(bpm), when one is registered.  What the callback
\* does is the caller's: "notes" only takes the tempo, "destroys" calls
\* destroy() on the engine.
Notify_gp(g, bpm) ==
    IF g.onBpmChangeCallback = "null"
    THEN g
    ELSE LET g1 == [g EXCEPT !.lastOp.cb = Append(@, bpm)]
         IN  IF g.onBpmChangeCallback = "destroys" THEN destroy_gp(g1) ELSE g1

\* The position in seconds of a vector: position / velocity, to the ms.
SecondsOf(position, velocity) == position \div velocity

syncFromTimingObject(g, t) ==
    IF g.timingObject = Null
    THEN g
    ELSE LET vector == query(g, t)
         IN  IF Unsupported(vector)
             THEN Throw(g)
             ELSE LET tv == translateVector(vector, t)
                      bpm == tv.velocity
                      g1 == IF bpm > 0 /\ Abs(g.transport.bpm - bpm) > BpmEpsilon
                            THEN Notify_gp(g, MathRound(bpm))
                            ELSE g
                  IN  IF tv.velocity > 0
                      THEN LET g2 == transport_setSeconds(
                                         g1, SecondsOf(tv.position, tv.velocity))
                               g3 == transport_setBpm(g2, bpm)
                           IN  IF g3.transport.state # "started"
                               THEN transport_start(g3)
                               ELSE g3
                      ELSE IF g1.transport.state # "stopped"
                           THEN transport_stop(g1)
                           ELSE g1

\* window.setTimeout(sync, jitter): a pending timer with a new handle.
setTimeout_gp(g, t, jitter) ==
    [g EXCEPT !.handles = @ + 1,
              !.updateInterval = Some(g.handles + 1),
              !.timers = @ \cup {[id |-> g.handles + 1, at |-> t + jitter]}]

\* One run of the closure `sync` of startSyncLoop: an exception of
\* syncFromTimingObject leaves it before the setTimeout.
sync_gp(g, t, jitter) ==
    LET g1 == syncFromTimingObject(g, t)
    IN  IF g1.lastOp.threw THEN g1 ELSE setTimeout_gp(g1, t, jitter)

startSyncLoop_gp(g, t, jitter) == sync_gp(g, t, jitter)

\* initialize(sessionId) up to the return of the promise: a new timing
\* object, connecting, with the two listeners attached.
initialize_gp(g) ==
    LET g0 == KinBegin(g, "initialize")
    IN  IF g0.isInitialized
        THEN g0
        ELSE [g0 EXCEPT
                 !.objects = Append(@, [readyState |-> "connecting",
                                        ready |-> TRUE, change |-> TRUE]),
                 !.timingObject = Some(Len(g0.objects) + 1),
                 !.hist.dead = FALSE]

\* The closure handleReadyStateChange of the initialize() call that
\* constructed timing object i.  It reads this.timingObject, whichever
\* object that is by now; removeEventListener takes the closure off the
\* object it is attached to only.
handleReadyStateChange(g, i, t, jitter) ==
    IF g.timingObject = Null
    THEN Throw(g)
    ELSE IF g.objects[Val(g.timingObject)].readyState = "open"
    THEN LET g1 == IF Val(g.timingObject) = i
                   THEN [g EXCEPT !.objects[i].ready = FALSE]
                   ELSE g
             g2 == [g1 EXCEPT !.isInitialized = TRUE]
         IN  startSyncLoop_gp(g2, t, jitter)
    ELSE g

\* The connection of timing object i opens: 'readystatechange', then 'change'
\* with the vector of the server.
open(g, i, t, jitter) ==
    LET g0 == KinBegin(g, "open")
        g1 == [g0 EXCEPT !.objects[i].readyState = "open"]
        g2 == [g1 EXCEPT !.due = Listening(g1)]
    IN  IF g2.objects[i].ready
        THEN handleReadyStateChange(g2, i, t, jitter)
        ELSE g2

\* The 'change' listener of initialize().
change(g, t) ==
    syncFromTimingObject([KinBegin(g, "change") EXCEPT !.due = g.due - 1], t)

setBPM_gp(g, t, bpm) ==
    LET g0 == KinBegin(g, "setBPM")
    IN  IF g0.timingObject = Null \/ ~g0.isInitialized
        THEN g0
        ELSE LET velocity == bpm
                 currentVector == query(g0, t)
                 g1 == update(g0, t, velocity, currentVector.position)
             IN  syncFromTimingObject(g1, t)

play(g, t) ==
    LET g0 == KinBegin(g, "play")
    IN  IF g0.timingObject = Null \/ ~g0.isInitialized
        THEN g0
        ELSE LET currentVector == query(g0, t)
             IN  IF currentVector.velocity > 0
                 THEN syncFromTimingObject(g0, t)
                 ELSE LET currentBPM == g0.transport.bpm
                          g1 == update(g0, t, currentBPM, currentVector.position)
                      IN  syncFromTimingObject(g1, t)

pause_gp(g, t) ==
    LET g0 == KinBegin(g, "pause")
    IN  IF g0.timingObject = Null \/ ~g0.isInitialized
        THEN g0
        ELSE LET currentVector == query(g0, t)
                 g1 == update(g0, t, 0, currentVector.position)
             IN  syncFromTimingObject(g1, t)

getState_gp(g, t) ==
    IF g.timingObject = Null
    THEN Null
    ELSE LET vector == query(g, t)
         IN  Some([isPlaying |-> vector.velocity # 0,
                   bpm |-> vector.velocity,
                   position |-> vector.position])

onBpmChange_gp(g, callback) ==
    [KinBegin(g, "onBpmChange") EXCEPT !.onBpmChangeCallback = callback,
                                       !.hist.dead = FALSE]

destroy_gpCall(g) == destroy_gp(KinBegin(g, "destroy"))

(***************************************************************************)
(* One client process running the engine of src/gpsound (record A), the    *)
(* connections of its timing objects, and the other participants of the    *)
(* session, who update the vector at the server.                           *)
(***************************************************************************)
KinMayCall(g) == g.hist.calls < KinCalls

KinCounted(g) == [g EXCEPT !.hist.calls = @ + 1]

Callbacks == {"notes", "destroys"}

\* Vectors another participant can put at the server at time t: a tempo or
\* a halt at the present position, with or without acceleration.
PeerVectors(g, t) ==
    [position : {Moved(g.vector, t).position},
     velocity : {0} \cup Bpms,
     acceleration : {0, Accel},
     timestamp : {t}]

KinTick ==
    /\ now + KinTickMs <= Epoch + KinTicks * KinTickMs
    /\ now' = now + KinTickMs
    /\ A' = [A EXCEPT !.transport = ToneAdvance(A.transport, now, now'),
                      !.lastOp = KinIdle]
    /\ UNCHANGED B

KinInitialize ==
    /\ KinMayCall(A)
    /\ A' = KinCounted(initialize_gp(A))
    /\ UNCHANGED <<now, B>>

KinOpen ==
    /\ \E i \in 1..Len(A.objects), jitter \in Delays :
           /\ A.objects[i].readyState = "connecting"
           /\ A' = open(A, i, now, jitter)
    /\ UNCHANGED <<now, B>>

KinChange ==
    /\ A.due > 0
    /\ A' = change(A, now)
    /\ UNCHANGED <<now, B>>

KinPeerUpdate ==
    /\ A.hist.peers < KinPeers
    /\ \E v \in PeerVectors(A, now) :
           A' = [KinBegin(A, "peer") EXCEPT !.vector = v,
                                            !.due = Listening(A),
                                            !.hist.peers = @ + 1]
    /\ UNCHANGED <<now, B>>

KinLoopFire ==
    /\ \E tm \in A.timers, jitter \in Delays :
           /\ now >= tm.at
           /\ A' = sync_gp(KinBegin([A EXCEPT !.timers = @ \ {tm}], "sync"),
                           now, jitter)
    /\ UNCHANGED <<now, B>>

KinSetBPM ==
    /\ KinMayCall(A)
    /\ \E bpm \in Bpms : A' = KinCounted(setBPM_gp(A, now, bpm))
    /\ UNCHANGED <<now, B>>

KinPlay ==
    /\ KinMayCall(A)
    /\ A' = KinCounted(play(A, now))
    /\ UNCHANGED <<now, B>>

KinPause ==
    /\ KinMayCall(A)
    /\ A' = KinCounted(pause_gp(A, now))
    /\ UNCHANGED <<now, B>>

KinOnBpmChange ==
    /\ KinMayCall(A)
    /\ \E callback \in Callbacks : A' = KinCounted(onBpmChange_gp(A, callback))
    /\ UNCHANGED <<now, B>>

KinDestroy ==
    /\ KinMayCall(A)
    /\ A' = KinCounted(destroy_gpCall(A))
    /\ UNCHANGED <<now, B>>

InitKin ==
    /\ now = Epoch
    /\ A = NewEngine
    /\ B = NewClient

NextKin ==
    \/ KinTick
    \/ KinInitialize
    \/ KinOpen
    \/ KinChange
    \/ KinPeerUpdate
    \/ KinLoopFire
    \/ KinSetBPM
    \/ KinPlay
    \/ KinPause
    \/ KinOnBpmChange
    \/ KinDestroy

SpecKin == InitKin /\ [][NextKin]_vars

(***************************************************************************)
(* The two engines side by side: A runs the TimingSync of src/herehear, B  *)
(* the one of src/gpsound, each with its own local clock.  Both are        *)
(* initialized at the same instant, paused, and from then on given the     *)
(* same commands at the same instants: resume/play, pause, setBPM.  No     *)
(* other participant acts.                                                 *)
(***************************************************************************)
EquivMayCall == A.hist.calls < EquivCalls

EquivInitialize ==
    /\ ~A.isInitialized
    /\ B.objects = <<>>
    /\ \E jitter \in Delays :
           /\ A' = initialize(A, now, DefaultBpm, jitter)
           /\ B' = open(initialize_gp(B), 1, now, jitter)
    /\ UNCHANGED now

EquivResume ==
    /\ A.isInitialized
    /\ EquivMayCall
    /\ A' = Track(A, resume(A, now), now)
    /\ B' = play(B, now)
    /\ UNCHANGED now

EquivPause ==
    /\ A.isInitialized
    /\ EquivMayCall
    /\ A' = Track(A, pause(A, now), now)
    /\ B' = pause_gp(B, now)
    /\ UNCHANGED now

EquivSetBPM ==
    /\ A.isInitialized
    /\ EquivMayCall
    /\ \E bpm \in Bpms :
           /\ A' = Track(A, setBPM(A, bpm), now)
           /\ B' = setBPM_gp(B, now, bpm)
    /\ UNCHANGED now

EquivTick ==
    /\ now + KinTickMs <= Epoch + KinTicks * KinTickMs
    /\ now' = now + KinTickMs
    /\ A' = Passed(A, now, now')
    /\ B' = [B EXCEPT !.transport = ToneAdvance(B.transport, now, now'),
                      !.lastOp = KinIdle]

EquivLoopFireA ==
    /\ \E d \in A.timers, jitter \in Delays :
           /\ now >= d
           /\ A' = Looped(sync(Begin(Fired(A, d), "sync"), now, jitter))
    /\ UNCHANGED <<now, B>>

EquivLoopFireB ==
    /\ \E tm \in B.timers, jitter \in Delays :
           /\ now >= tm.at
           /\ B' = sync_gp(KinBegin([B EXCEPT !.timers = @ \ {tm}], "sync"),
                           now, jitter)
    /\ UNCHANGED <<now, A>>

EquivChange ==
    /\ B.due > 0
    /\ B' = change(B, now)
    /\ UNCHANGED <<now, A>>

InitEquiv ==
    /\ now = Epoch
    /\ A = NewClient
    /\ B = NewEngine

NextEquiv ==
    \/ EquivInitialize
    \/ EquivResume
    \/ EquivPause
    \/ EquivSetBPM
    \/ EquivTick
    \/ EquivLoopFireA
    \/ EquivLoopFireB
    \/ EquivChange

SpecEquiv == InitEquiv /\ [][NextEquiv]_vars

(***************************************************************************)
(* Client A of src/herehear with the SoundPlayer of the same process:      *)
(* stopAll() acts on the Transport the TimingSync drives.                  *)
(***************************************************************************)
\* SoundPlayer.stopAll(): Tone.getTransport().stop(), then cancel(), which
\* clears the events scheduled on the timeline; stop() has already taken
\* the start that was scheduled.
stopAll(c) ==
    [transport_stop(Begin(c, "stopAll")) EXCEPT !.hist.stoppedAll = TRUE,
                                                !.hist.smooth = FALSE]

StopAll ==
    /\ A.hist.stops < MaxStops
    /\ A' = [stopAll(A) EXCEPT !.hist.stops = @ + 1]
    /\ UNCHANGED <<now, B>>

NextStop ==
    \/ Tick
    \/ LoopFire
    \/ Initialize
    \/ SyncFromRemote
    \/ Start
    \/ Resume
    \/ Pause
    \/ StopAll

SpecStop == Init /\ [][NextStop]_vars

(***************************************************************************)
(* class SoundPlayer (src/herehear/src/components/SoundPlayer.tsx): the    *)
(* feedback guard isSyncingTransport.  syncTransportState is followed      *)
(* statement by statement: `frames` holds its calls in execution, the      *)
(* innermost last, each with its argument and the statement it is at.      *)
(* Between two statements, that is from a listener some Transport call     *)
(* runs, the player can be called again.  A mutation of the Transport may  *)
(* throw.  The position is held in ms, as the clock's seconds.             *)
(***************************************************************************)
PlayerIdle == [name |-> "idle", skipped |-> FALSE, threw |-> FALSE]

NewPlayer ==
    [isSyncingTransport |-> FALSE,
     frames |-> <<>>,
     transport |-> InitialTransport,
     lastOp |-> PlayerIdle,
     hist |-> [threw |-> FALSE]]

\* Shared transport states other users publish.
PlayerStates ==
    [bpm : Bpms, isPlaying : BOOLEAN, position : {0, RemotePaused}]

PlayerBegin(p, name) == [p EXCEPT !.lastOp = [PlayerIdle EXCEPT !.name = name]]

\* finally { this.isSyncingTransport = false; } and the end of the call.
finally(p) ==
    [p EXCEPT !.isSyncingTransport = FALSE,
              !.frames = SubSeq(@, 1, Len(@) - 1)]

\* syncTransportState with the guard tested inside the try block, so that
\* the early return passes through finally.
syncTransportState_guardInsideTry(p, transportState) ==
    LET p0 == PlayerBegin(p, "syncTransportState")
    IN  IF p0.isSyncingTransport
        THEN [p0 EXCEPT !.lastOp.skipped = TRUE, !.isSyncingTransport = FALSE]
        ELSE [p0 EXCEPT !.isSyncingTransport = TRUE,
                        !.frames = Append(@, [arg |-> transportState, pc |-> "bpm"])]

\* syncTransportState up to the try block.
syncTransportState(p, transportState) ==
    LET p0 == PlayerBegin(p, "syncTransportState")
    IN  IF p0.isSyncingTransport
        THEN [p0 EXCEPT !.lastOp.skipped = TRUE]
        ELSE [p0 EXCEPT !.isSyncingTransport = TRUE,
                        !.frames = Append(@, [arg |-> transportState, pc |-> "bpm"])]

\* The Transport after the statement at `pc` of the try block.
Mutated(T, transportState, pc) ==
    IF pc = "bpm"
    THEN IF T.bpm # transportState.bpm THEN ToneSetBpm(T, transportState.bpm) ELSE T
    ELSE IF pc = "position"
    THEN IF T.seconds # transportState.position
         THEN ToneSetSeconds(T, transportState.position)
         ELSE T
    ELSE IF transportState.isPlaying /\ T.state # "started"
    THEN ToneStart(T)
    ELSE IF ~transportState.isPlaying /\ T.state = "started"
    THEN TonePause(T)
    ELSE T

AfterPc(pc) == IF pc = "bpm" THEN "position" ELSE "run"

\* The next statement of the innermost call: it mutates the Transport or, if
\* `throws`, the mutation it would make throws instead.
step(p, throws) ==
    LET p0 == PlayerBegin(p, "step")
        top == p0.frames[Len(p0.frames)]
        T == Mutated(p0.transport, top.arg, top.pc)
    IN  IF throws /\ T # p0.transport
        THEN [finally(p0) EXCEPT !.lastOp.threw = TRUE, !.hist.threw = TRUE]
        ELSE LET p1 == [p0 EXCEPT !.transport = T]
             IN  IF top.pc = "run"
                 THEN finally(p1)
                 ELSE [p1 EXCEPT !.frames[Len(p0.frames)].pc = AfterPc(top.pc)]

startTransport(p) ==
    LET p0 == PlayerBegin(p, "startTransport")
    IN  IF ~p0.isSyncingTransport
        THEN [p0 EXCEPT !.transport = ToneStart(p0.transport)]
        ELSE p0

stopTransport(p) ==
    LET p0 == PlayerBegin(p, "stopTransport")
    IN  IF ~p0.isSyncingTransport
        THEN [p0 EXCEPT !.transport = TonePause(p0.transport)]
        ELSE p0

setBPM_player(p, bpm) ==
    LET p0 == PlayerBegin(p, "setBPM")
    IN  IF ~p0.isSyncingTransport
        THEN [p0 EXCEPT !.transport = ToneSetBpm(p0.transport, bpm)]
        ELSE p0

\* syncTransportState called while no call of it is executing.
PlayerSync ==
    /\ A.frames = <<>>
    /\ \E transportState \in PlayerStates : A' = syncTransportState(A, transportState)
    /\ UNCHANGED <<now, B>>

\* syncTransportState called while a call of it is executing.
PlayerReenter ==
    /\ A.frames # <<>>
    /\ Len(A.frames) < PlayerDepth
    /\ \E transportState \in PlayerStates : A' = syncTransportState(A, transportState)
    /\ UNCHANGED <<now, B>>

PlayerStep ==
    /\ A.frames # <<>>
    /\ \E throws \in BOOLEAN : A' = step(A, throws)
    /\ UNCHANGED <<now, B>>

PlayerStartTransport ==
    /\ A' = startTransport(A)
    /\ UNCHANGED <<now, B>>

PlayerStopTransport ==
    /\ A' = stopTransport(A)
    /\ UNCHANGED <<now, B>>

PlayerSetBPM ==
    /\ \E bpm \in Bpms : A' = setBPM_player(A, bpm)
    /\ UNCHANGED <<now, B>>

InitPlayer ==
    /\ now = Epoch
    /\ A = NewPlayer
    /\ B = NewClient

NextPlayer ==
    \/ PlayerSync
    \/ PlayerReenter
    \/ PlayerStep
    \/ PlayerStartTransport
    \/ PlayerStopTransport
    \/ PlayerSetBPM

SpecPlayer == InitPlayer /\ [][NextPlayer]_vars

(***************************************************************************)
(* Properties                                                              *)
(***************************************************************************)
Derived(c, t) == t - Val(c.currentState.startTime)

CallsOf(c, call) == SelectSeq(c.lastOp.calls, LAMBDA e : e.call = call)

\* A direct assignment of the position that found the clock started.
HardSeekWhileStarted(c) ==
    \E i \in 1..Len(c.lastOp.calls) :
        c.lastOp.calls[i].call = "seconds" /\ c.lastOp.calls[i].st = "started"

\* C1: in every reachable state of the herehear engine (initialize, start,
\* resume, pause, reset, setBPM, syncFromRemote with snapshots that satisfy
\* the invariant), isPlaying is true exactly when startTime is non-null.
C1_PlayingIffStartTime ==
    A.currentState.isPlaying <=> (A.currentState.startTime # Null)

C1_Witness ==
    /\ A.lastOp.name = "pause" /\ A.lastOp.preInit /\ A.lastOp.wasPlaying
    /\ ~A.currentState.isPlaying
    /\ A.currentState.pausedPosition > 0

\* C2: neither the remote reconciler nor the drift corrector (run by the
\* periodic loop and by initialize's first loop iteration) assigns the
\* clock's position directly while the clock is started.
C2_NoHardSeekWhileStarted ==
    A.lastOp.name \in {"syncFromRemote", "sync", "initialize"}
        => ~HardSeekWhileStarted(A)

\* Client c after the delivery of the common snapshot: it holds the
\* snapshot, and once a loop iteration has run a started clock is within the
\* tolerance of the position the snapshot implies.
Converged(c) ==
    c.hist.delivered # Null =>
        LET s == Val(c.hist.delivered)
        IN  /\ c.currentState = s
            /\ (c.hist.checked /\ c.transport.state = "started") =>
                   Abs(c.transport.seconds - (now - Val(s.startTime))) <= DriftThreshold

\* C3: two initialized engines with equal wall clocks to which the same
\* playing snapshot s has been delivered, no call following it: each holds
\* state s, and once its next periodic loop iteration has run, whenever its
\* local clock is started the clock's position is within 0.05 s of
\* now - s.startTime.
C3_Convergence ==
    /\ Converged(A)
    /\ Converged(B)
    /\ (A.hist.delivered # Null /\ B.hist.delivered # Null) =>
           A.currentState = B.currentState

C3_Witness ==
    /\ A.hist.delivered # Null /\ B.hist.delivered # Null
    /\ A.hist.checked /\ B.hist.checked
    /\ A.transport.state = "started" /\ B.transport.state = "started"
    /\ A.transport.seconds # B.transport.seconds

\* C4: once pause() or syncFromRemote with a non-playing snapshot has
\* returned on an initialized engine, the local clock is not running until
\* the next start(), resume() or syncFromRemote with a playing snapshot.
C4_HaltedClockStaysHalted ==
    A.hist.halted => A.transport.state # "started"

\* C5: pause() at t1 of a playing engine followed by resume() at t2 with no
\* call in between: the derived position right after resume() equals the
\* pausedPosition pause() recorded, which is t1 - old startTime; the clock is
\* set to that position and started.
C5_PauseResumeRoundTrip ==
    (A.lastOp.name = "resume" /\ A.lastOp.prePaused # Null) =>
        LET p == Val(A.lastOp.prePaused)
        IN  /\ A.currentState.isPlaying
            /\ A.currentState.startTime # Null
            /\ Derived(A, now) = p.pausedPosition
            /\ p.pausedPosition = p.at - Val(p.startTime)
            /\ A.currentState.pausedPosition = p.pausedPosition
            /\ A.transport.seconds = p.pausedPosition
            /\ A.transport.state = "started"

C5_Witness ==
    /\ A.lastOp.name = "resume" /\ A.lastOp.prePaused # Null
    /\ Val(A.lastOp.prePaused).at < now
    /\ Val(A.lastOp.prePaused).pausedPosition > 0

\* What start() leaves behind on an initialized engine.
C6_StartEffect ==
    (A.lastOp.name = "start" /\ A.lastOp.preInit) =>
        /\ A.currentState.startTime = Some(now)
        /\ A.currentState.isPlaying
        /\ A.currentState.pausedPosition = 0
        /\ A.transport.seconds = 0
        /\ A.transport.state = "started"
        /\ A.lastOp.ret = Some(A.currentState)

\* C6: start() on an initialized engine, from any state, gives startTime =
\* now, isPlaying, pausedPosition = 0, clock position 0 and clock started;
\* and while startTime stays as it is, the derived position now - startTime
\* does not decrease.
C6_Start ==
    /\ []C6_StartEffect
    /\ [][(/\ A.currentState.startTime # Null
           /\ A'.currentState.startTime = A.currentState.startTime)
          => Derived(A', now') >= Derived(A, now)]_vars

C6_Witness ==
    /\ A.lastOp.name = "start" /\ A.lastOp.preInit
    /\ A.lastOp.wasPlaying
    /\ now > Epoch

\* C7: pause() on an initialized playing engine sets pausedPosition =
\* now - startTime, isPlaying = false, startTime = null and keeps the tempo;
\* pause() on a paused engine leaves the TimelineState as it was.
C7_Pause ==
    [][(A'.lastOp.name = "pause" /\ A.isInitialized) =>
          IF A.currentState.isPlaying
          THEN /\ A'.currentState.pausedPosition = Derived(A, now)
               /\ ~A'.currentState.isPlaying
               /\ A'.currentState.startTime = Null
               /\ A'.currentState.bpm = A.currentState.bpm
          ELSE A'.currentState = A.currentState]_vars

C7_Witness ==
    /\ A.lastOp.name = "pause" /\ A.lastOp.preInit /\ A.lastOp.wasPlaying
    /\ A.currentState.pausedPosition > 0
    /\ A.currentState.startTime = Null

\* C8: resume() on an initialized engine that is playing returns the current
\* state and changes neither the TimelineState nor the local clock.
C8_ResumeWhilePlaying ==
    [][(A'.lastOp.name = "resume" /\ A.isInitialized /\ A.currentState.isPlaying) =>
          /\ A'.currentState = A.currentState
          /\ A'.transport = A.transport
          /\ A'.lastOp.calls = <<>>
          /\ A'.lastOp.ret = Some(A.currentState)]_vars

C8_Witness ==
    /\ A.lastOp.name = "resume" /\ A.lastOp.preInit /\ A.lastOp.wasPlaying
    /\ A.transport.state = "started"
    /\ A.transport.seconds > 0

\* C9: reset() on an initialized engine sets pausedPosition = 0 and keeps
\* isPlaying and tempo; playing, startTime becomes now and the clock keeps
\* its run state; paused, startTime stays null; either way the clock is set
\* to 0 and reset() does not start or pause it.
C9_Reset ==
    [][(A'.lastOp.name = "reset" /\ A.isInitialized) =>
          /\ A'.currentState.pausedPosition = 0
          /\ A'.currentState.isPlaying = A.currentState.isPlaying
          /\ A'.currentState.bpm = A.currentState.bpm
          /\ A'.currentState.startTime =
                 IF A.currentState.isPlaying THEN Some(now) ELSE Null
          /\ A'.transport = [A.transport EXCEPT !.seconds = 0]
          /\ CallsOf(A', "start") = <<>>
          /\ CallsOf(A', "startAt") = <<>>
          /\ CallsOf(A', "pause") = <<>>]_vars

C9_Witness ==
    /\ A.lastOp.name = "reset" /\ A.lastOp.preInit /\ ~A.lastOp.wasPlaying
    /\ A.transport.seconds = 0
    /\ A.transport.state = "paused"
    /\ A.currentState.bpm = OtherBpm

\* C10: setBPM(t) on an initialized engine changes the tempo of the state
\* and of the clock and nothing else: startTime, isPlaying, pausedPosition,
\* the clock's run state, its scheduled restart and its position in seconds
\* stay as they were.
C10_SetBPM ==
    [][(A'.lastOp.name = "setBPM" /\ A.isInitialized) =>
          \E bpm \in Bpms :
              /\ A'.currentState = [A.currentState EXCEPT !.bpm = bpm]
              /\ A'.transport = [A.transport EXCEPT !.bpm = bpm]]_vars

C10_Witness ==
    /\ A.lastOp.name = "setBPM" /\ A.lastOp.preInit /\ A.lastOp.wasPlaying
    /\ A.currentState.bpm = OtherBpm
    /\ A.transport.state = "started"
    /\ A.transport.seconds > 0

\* C11: the tempo of the engine state is strictly positive in every
\* reachable state, whatever numbers initialize and setBPM are called with
\* (0 and negative numbers included).
C11_TempoPositive == A.currentState.bpm > 0

\* C12: pausedPosition >= 0 in every reachable state of the herehear
\* engine, under local commands and snapshots that have pausedPosition >= 0
\* and satisfy isPlaying <=> startTime # null, the reference instant of a
\* snapshot possibly later than the local now.
C12_PausedPositionNonNegative == A.currentState.pausedPosition >= 0

Commands == {"start", "resume", "pause", "reset", "setBPM"}

\* C13: on an engine that is not initialized (never initialized, or
\* destroyed), start, resume, pause, reset, setBPM and syncFromRemote leave
\* the TimelineState as it was, make no call on the local clock, do not
\* invoke the tempo-change callback and complete; the five commands return
\* the unchanged current state.
C13_UsageBeforeReady ==
    [][(A'.lastOp.name \in Commands \cup {"syncFromRemote"} /\ ~A.isInitialized) =>
          /\ A'.currentState = A.currentState
          /\ A'.transport = A.transport
          /\ A'.lastOp.calls = <<>>
          /\ A'.lastOp.cb = <<>>
          /\ ~A'.isInitialized
          /\ A'.timers = A.timers
          /\ A'.lastOp.name \in Commands => A'.lastOp.ret = Some(A.currentState)]_vars

C13_Witness ==
    /\ A.lastOp.name = "pause" /\ ~A.lastOp.preInit
    /\ A.currentState.isPlaying
    /\ A.transport.state = "started"
    /\ A.lastOp.ret = Some(A.currentState)

\* C14: syncFromRemote on an initialized engine, with a snapshot that has
\* isPlaying and a startTime, finding the local clock not started: it sets
\* the clock's position to now - startTime and starts the clock; on return
\* the clock is started at that position.
C14_TransitionEdge ==
    [][(/\ A'.lastOp.name = "syncFromRemote" /\ A.isInitialized
        /\ A'.currentState.isPlaying /\ A'.currentState.startTime # Null
        /\ A.transport.state # "started") =>
          /\ A'.transport.state = "started"
          /\ A'.transport.seconds = now - Val(A'.currentState.startTime)
          /\ [i \in 1..Len(A'.lastOp.calls) |-> A'.lastOp.calls[i].call]
                 = <<"bpm", "seconds", "start">>]_vars

C14_Witness ==
    /\ A.lastOp.name = "syncFromRemote" /\ A.lastOp.preInit
    /\ A.currentState.isPlaying
    /\ Len(A.lastOp.calls) = 3
    /\ A.lastOp.calls[2] = [call |-> "seconds", st |-> "paused"]
    /\ A.transport.state = "started"
    /\ A.transport.seconds > 0

\* C15: after syncFromRemote(s) on an initialized engine getState() equals
\* s field for field; and the TimelineState after any interleaving of
\* commands and snapshots is that of an engine that was given only the last
\* snapshot and the commands after it.
C15_MostRecentWins ==
    /\ (A.lastOp.name = "syncFromRemote" /\ A.lastOp.preInit) =>
           getState(A) = Val(A.lastOp.arg)
    /\ A.hist.delivered # Null => getState(A) = getState(B)

C15_Witness ==
    /\ A.hist.delivered # Null
    /\ A.hist.calls = LastCalls
    /\ getState(A) # Val(A.hist.delivered)
    /\ A.transport # B.transport

\* The drift a check at `now` finds on client c against reference instant st.
DriftOf(c, st) == Abs(c.transport.seconds - (now - Val(st)))

\* The step from c to cp made the smooth seek to now - st.
Corrects(c, cp, st) ==
    /\ CallsOf(cp, "pause") # <<>>
    /\ CallsOf(cp, "seconds") # <<>>
    /\ CallsOf(cp, "startAt") # <<>>
    /\ cp.transport.seconds = (now - Val(st)) + Lookahead
    /\ cp.transport.state = "paused"

\* The step from c to cp left the run state and position of the clock alone.
LeavesClock(c, cp) ==
    /\ CallsOf(cp, "pause") = <<>>
    /\ CallsOf(cp, "seconds") = <<>>
    /\ CallsOf(cp, "startAt") = <<>>
    /\ CallsOf(cp, "start") = <<>>
    /\ cp.transport = [c.transport EXCEPT !.bpm = cp.transport.bpm]

\* C16: a drift check on an initialized, playing engine whose clock is
\* started (the periodic syncToTransport, the one initialize runs first, or
\* the steady-state branch of syncFromRemote, which checks against the
\* snapshot it adopted): no correction when |clock position - (now -
\* startTime)| <= 0.05 s, the smooth-seek correction when it is > 0.05 s.
C16_DriftThreshold ==
    [][(/\ A.currentState.isPlaying /\ A.transport.state = "started"
        /\ \/ A'.lastOp.name = "sync"
           \/ A'.lastOp.name = "initialize" /\ ~A.isInitialized
           \/ /\ A'.lastOp.name = "syncFromRemote" /\ A.isInitialized
              /\ A'.currentState.isPlaying) =>
          LET st == A'.currentState.startTime
          IN  IF DriftOf(A, st) > DriftThreshold
              THEN Corrects(A, A', st)
              ELSE LeavesClock(A, A')]_vars

C16_Witness ==
    /\ A.lastOp.name = "sync"
    /\ A.currentState.isPlaying /\ A.transport.state = "started"
    /\ A.lastOp.calls = <<>>
    /\ DriftOf(A, A.currentState.startTime) = DriftThreshold

\* C17: after a smooth seek, the local clock running at wall rate and no
\* command or snapshot arriving, every later drift check of the periodic
\* loop, inside the lookahead window or after it, finds a drift of at most
\* 0.05 s and makes no further correction.
C17_NoCorrectionLoop ==
    [][(A'.lastOp.name = "sync" /\ A.hist.smooth) =>
          /\ DriftOf(A, A.currentState.startTime) <= DriftThreshold
          /\ LeavesClock(A, A')]_vars

\* A check inside the lookahead window: the clock still waits for the
\* restart the smooth seek scheduled.
C17_Witness ==
    /\ A.lastOp.name = "sync" /\ A.hist.smooth
    /\ A.transport.state = "paused"
    /\ A.transport.sched # Null /\ now < Val(A.transport.sched)
    /\ DriftOf(A, A.currentState.startTime) > 0

\* b, in tenths of a BPM, is x rounded to a whole number of BPM.
IsRounded(b, x) == b % 10 = 0 /\ b - x <= 5 /\ x - b <= 5

\* C18: syncFromRemote(s) on an initialized engine with a registered
\* callback invokes the callback exactly once, with round(s.bpm), if
\* |s.bpm - tempo before the call| > 0.1, and not at all otherwise.
C18_TempoCallback ==
    [][(/\ A'.lastOp.name = "syncFromRemote"
        /\ A.isInitialized /\ A.onBpmChangeCallback) =>
          LET s == Val(A'.lastOp.arg)
              cb == A'.lastOp.cb
          IN  IF Abs(s.bpm - A.currentState.bpm) > BpmEpsilon
              THEN Len(cb) = 1 /\ IsRounded(cb[1].bpm, s.bpm)
              ELSE cb = <<>>]_vars

C18_Witness ==
    /\ A.lastOp.name = "syncFromRemote" /\ A.lastOp.preInit
    /\ A.onBpmChangeCallback
    /\ Len(A.lastOp.cb) = 1
    /\ A.lastOp.cb[1].bpm # Val(A.lastOp.arg).bpm

\* C19: when syncFromRemote invokes the tempo-change callback, the
\* TimelineState that getState() shows the callback still holds the tempo
\* the engine had before the call.
C19_CallbackBeforeAdopt ==
    [][A'.lastOp.name = "syncFromRemote" =>
          \A i \in 1..Len(A'.lastOp.cb) :
              A'.lastOp.cb[i].seen = A.currentState.bpm]_vars

\* C20: initialize(t) on an engine that is already initialized changes
\* nothing: the TimelineState with its tempo, the tempo and the rest of the
\* local clock, and the one pending timer of the periodic loop stay as they
\* were, and no loop iteration is run.
C20_InitializeOnce ==
    [][(A'.lastOp.name = "initialize" /\ A.isInitialized) =>
          /\ A'.currentState = A.currentState
          /\ A'.transport = A.transport
          /\ A'.timers = A.timers
          /\ A'.updateInterval = A.updateInterval
          /\ A'.isInitialized
          /\ A'.onBpmChangeCallback = A.onBpmChangeCallback
          /\ A'.lastOp.calls = <<>>]_vars

C20_Witness ==
    /\ A.lastOp.name = "initialize" /\ A.lastOp.preInit
    /\ A.currentState.isPlaying
    /\ A.transport.state = "started" /\ A.transport.seconds > 0
    /\ Cardinality(A.timers) = 1

\* C26: an iteration of the periodic loop leaves the TimelineState as it
\* was; and on an engine that is not playing (isPlaying false or startTime
\* null) or not initialized it makes no call on the local clock: it only
\* replaces its timer by the next one.
C26_LoopFrame ==
    [][A'.lastOp.name = "sync" =>
          /\ A'.currentState = A.currentState
          /\ A'.isInitialized = A.isInitialized
          /\ A'.onBpmChangeCallback = A.onBpmChangeCallback
          /\ A'.lastOp.cb = <<>>
          /\ (\/ ~A.currentState.isPlaying
              \/ A.currentState.startTime = Null
              \/ ~A.isInitialized) =>
                 /\ A'.lastOp.calls = <<>>
                 /\ A'.transport = A.transport
                 /\ Cardinality(A'.timers) = Cardinality(A.timers)
                 /\ A'.updateInterval # Null
                 /\ Val(A'.updateInterval) \in A'.timers]_vars

C26_Witness ==
    /\ A.lastOp.name = "sync"
    /\ ~A.currentState.isPlaying
    /\ A.currentState.pausedPosition > 0
    /\ A.transport.state = "paused"
    /\ A.transport.seconds # A.currentState.pausedPosition

\* C22: destroy() followed by getInstance().initialize(t) yields an
\* initialized engine in the fresh initial state (tempo t, not playing,
\* startTime null, pausedPosition 0, no callback) with exactly one pending
\* loop timer, a new one.
C22_Reinitialize ==
    [][(A.lastOp.name = "destroy" /\ A'.lastOp.name = "initialize") =>
          /\ A'.isInitialized
          /\ \E t \in Bpms : A'.currentState = [InitialState EXCEPT !.bpm = t]
          /\ ~A'.onBpmChangeCallback
          /\ Cardinality(A'.timers) = 1
          /\ A'.updateInterval # Null
          /\ Val(A'.updateInterval) \in A'.timers]_vars

\* C28: at every moment at most one timer of the periodic loop is pending
\* in a client process, for any sequence of getInstance, initialize and
\* destroy calls, those made through a reference obtained before destroy()
\* included.
C28_OneTimer == Cardinality(A.timers) + Cardinality(B.timers) <= 1

\* C21: after destroy() has returned (and until initialize or onBpmChange
\* is called again) no periodic-loop timer is pending and the tempo-change
\* callback is cleared, wherever destroy() was called from, the tempo-change callback run
\* by a loop iteration included.
C21_DestroyCancels ==
    A.hist.dead => A.timers = {} /\ A.onBpmChangeCallback = "null"

\* The operation named `name` reads the vector at the server when it runs on
\* engine g.
Reads(g, name) ==
    /\ g.timingObject # Null
    /\ g.objects[Val(g.timingObject)].readyState = "open"
    /\ \/ name \in {"change", "sync"}
       \/ name \in {"setBPM", "play", "pause"} /\ g.isInitialized

\* C24: while the vector of the timing object has non-zero acceleration, an
\* operation that reads it (change handler, periodic sync, setBPM, play,
\* pause) fails and alters nothing: the local clock is as before, the
\* callback is not invoked and the shared vector is not updated.
C24_UnsupportedVector ==
    [][(Unsupported(A.vector) /\ Reads(A, A'.lastOp.name)) =>
          /\ A'.lastOp.threw
          /\ A'.transport = A.transport
          /\ A'.lastOp.cb = <<>>
          /\ ~A'.lastOp.updated
          /\ A'.vector = A.vector]_vars

\* The local clock of g shows the tempo of the vector at time t: no tempo
\* change of another participant is waiting to be processed.
Settled(g, t) ==
    LET bpm == Moved(g.vector, t).velocity
    IN  bpm > 0 => Abs(g.transport.bpm - bpm) <= BpmEpsilon

\* C27: a local command (setBPM, play, pause) given to an engine whose clock
\* shows the shared tempo never invokes the tempo-change callback.
C27_CallbackRemoteOnly ==
    [][(A'.lastOp.name \in {"setBPM", "play", "pause"} /\ Settled(A, now)) =>
          A'.lastOp.cb = <<>>]_vars

\* C29: every iteration of the periodic loop of an initialized engine ends
\* with the next iteration scheduled, also when the iteration failed.
C29_LoopReschedules ==
    [][(A'.lastOp.name = "sync" /\ A'.isInitialized) =>
          /\ A'.updateInterval # Null
          /\ \E tm \in A'.timers :
                 tm.id = Val(A'.updateInterval) /\ tm.at > now]_vars

\* C30: an engine that was never destroyed and has become initialized holds
\* one timing object with one 'change' listener, and its pending loop timers
\* are at most the one whose handle updateInterval holds, however many
\* initialize() calls preceded the opening of the connection.
C30_OneOfEach ==
    (A.isInitialized /\ ~A.hist.destroyed) =>
        /\ Len(A.objects) = 1
        /\ Cardinality({i \in 1..Len(A.objects) : A.objects[i].change}) = 1
        /\ \A tm \in A.timers : A.updateInterval = Some(tm.id)

\* C23: isSyncingTransport is false whenever no syncTransportState call is
\* executing, after a normal return and after a Transport mutation that
\* threw alike; and a syncTransportState call made while the guard is set
\* returns leaving the Transport, the guard and the executing call as they
\* were.
C23_GuardRelease ==
    /\ [](A.frames = <<>> => ~A.isSyncingTransport)
    /\ [][(A'.lastOp.name = "syncTransportState" /\ A.isSyncingTransport) =>
             /\ A'.lastOp.skipped
             /\ A'.transport = A.transport
             /\ A'.isSyncingTransport
             /\ A'.frames = A.frames]_vars

\* A call was made while the guard was set, in a run in which a mutation
\* has thrown.
C23_Witness ==
    /\ A.lastOp.name = "syncTransportState"
    /\ A.lastOp.skipped
    /\ A.frames # <<>>
    /\ A.hist.threw

\* C25: given the same commands at the same instants from a paused start,
\* the two engines report the same isPlaying and, while they play, the same
\* tempo, and their local clocks are at the same position in seconds (to
\* the millisecond).
C25_SameBehaviour ==
    (A.isInitialized /\ B.isInitialized) =>
        LET a == getState(A)
            b == Val(getState_gp(B, now))
        IN  /\ a.isPlaying = b.isPlaying
            /\ a.isPlaying =>
                   /\ a.bpm = b.bpm
                   /\ Abs(A.transport.seconds - B.transport.seconds) <= 1

\* C31: once stopAll() has stopped the Transport, and until start(),
\* resume() or a playing remote snapshot, the Transport is stopped and no
\* start is scheduled on it, whatever loop iterations run meanwhile.
C31_StaysStopped ==
    A.hist.stoppedAll =>
        A.transport.state = "stopped" /\ A.transport.sched = Null

====
